---- MODULE Spec2Model ----
(***************************************************************************)
(* Model of the command-line utilities of resnet3d/utils:                  *)
(*   bbox_analyze.py      (analyze / percentile / crop subcommands)        *)
(*   hu_clip_normalize.py (clip to [-1000, 400] and rescale to [0, 1])     *)
(*                                                                         *)
(* Conventions.                                                            *)
(*  - A file name is modelled by its lexicographic rank (a natural         *)
(*    number) together with its extension.                                 *)
(*  - A real number is modelled exactly as a fraction [num, den], den > 0. *)
(*    The float64 arithmetic of the code is exact on all values occurring  *)
(*    within the bounds below, except for the final division, which is     *)
(*    kept symbolic in the fraction.                                       *)
(*  - stdout is a sequence of events, one per print call that matters.     *)
(***************************************************************************)
EXTENDS Integers, Sequences, FiniteSets, TLC

----------------------------------------------------------------------------
(* Bounds *)

Dim == 3
MaxFiles == 3
MaxBox == 2
MaxRows == 2
MaxElems == 2

----------------------------------------------------------------------------
(* Generic helpers *)

RECURSIVE SumSet(_, _)
SumSet(S, k) ==
    IF S = {} THEN 0
    ELSE LET p == CHOOSE q \in S : TRUE
         IN  p[k] + SumSet(S \ {p}, k)

RECURSIVE SumSeq(_)
SumSeq(s) == IF s = <<>> THEN 0 ELSE Head(s) + SumSeq(Tail(s))

SetMin(S) == CHOOSE m \in S : \A n \in S : m <= n
SetMax(S) == CHOOSE m \in S : \A n \in S : m >= n

Range(s) == {s[k] : k \in 1..Len(s)}

\* fractions
Frac(n, d) == [num |-> n, den |-> d]
FracSub(a, b) == Frac(a.num * b.den - b.num * a.den, a.den * b.den)
FracAdd(a, b) == Frac(a.num * b.den + b.num * a.den, a.den * b.den)
FracLt(a, b) == a.num * b.den < b.num * a.den
IntLtFrac(x, a) == x * a.den < a.num

RECURSIVE GCD(_, _)
GCD(a, b) == IF b = 0 THEN a ELSE GCD(b, a % b)

Abs(x) == IF x < 0 THEN -x ELSE x

\* the fraction in lowest terms
Reduced(a) ==
    LET g == GCD(Abs(a.num), a.den)
    IN  Frac(a.num \div g, a.den \div g)
IntGeFrac(x, a) == x * a.den >= a.num

----------------------------------------------------------------------------
(* Volumes and directories *)

Grid == (0..(Dim-1)) \X (0..(Dim-1)) \X (0..(Dim-1))

\* a 3-D array whose value is fg on S and bg elsewhere
MaskOf(S, fg, bg) == [p \in Grid |-> IF p \in S THEN fg ELSE bg]

Volume(m) == [kind |-> "volume", mask |-> m]
\* nrrd.read raises on this file
Corrupt == [kind |-> "corrupt", mask |-> <<>>]
\* nrrd.read succeeds but the array is not 3-dimensional, so the unpacking
\* of np.where into three index arrays raises ValueError
Flat == [kind |-> "flat", mask |-> <<>>]

SmallSets ==
    {{}} \cup {{p} : p \in Grid} \cup {{p, q} : p \in Grid, q \in Grid}

SparseVolumes == {Volume(MaskOf(S, 1, 0)) : S \in SmallSets}

CubeAt(n, o) ==
    {p \in Grid : \A k \in 1..3 : p[k] >= o[k] /\ p[k] < o[k] + n}

Cubes ==
    UNION {{CubeAt(n, o) : o \in {q \in Grid : \A k \in 1..3 : q[k] + n <= Dim}}
              : n \in 1..Dim}

CubeVolumes == {Volume(MaskOf(S, 1, 0)) : S \in Cubes}

\* volumes carrying values other than 0 and 1
OddVolumes ==
    { Volume(MaskOf({<<0,0,0>>}, 2, -1)),
      Volume(MaskOf({}, 1, -1)),
      Volume(MaskOf({<<0,1,0>>, <<1,1,0>>}, 3, -2)) }

\* contents used for the files of a multi-file batch
BatchContents ==
    { Corrupt,
      Volume(MaskOf({}, 1, 0)),
      Volume(MaskOf({<<1,1,1>>}, 1, 0)),
      Volume(MaskOf({<<0,0,0>>, <<1,2,0>>}, 1, 0)) }

NrrdEntry(n, c) == [name |-> n, ext |-> "nrrd", content |-> c]
TxtEntry(n) == [name |-> n, ext |-> "txt", content |-> Corrupt]

DistinctNames(l) ==
    \A a, b \in 1..Len(l) : a # b => l[a].name # l[b].name

\* directory listings in the arbitrary order the operating system returns
BatchEntries ==
    {NrrdEntry(n, c) : n \in 1..MaxFiles, c \in BatchContents}
        \cup {TxtEntry(n) : n \in 1..MaxFiles}

BatchListings ==
    UNION {{l \in [1..k -> BatchEntries] : DistinctNames(l)} : k \in 0..MaxFiles}

SingleListings ==
    {<<NrrdEntry(1, c)>> :
        c \in SparseVolumes \cup CubeVolumes \cup OddVolumes \cup {Flat}}

----------------------------------------------------------------------------
(* Command lines of bbox_analyze.py *)

NoSub == ""
NotGiven == ""

\* one comma-separated field of the bbox_size argument: the decimal text of
\* an integer (num) or text that int() rejects
Num(v) == [num |-> TRUE, val |-> v]
Junk == [num |-> FALSE, val |-> 0]

Argv(sub, dir, out, csv, bbox) ==
    [sub |-> sub, input_dir |-> dir, output_csv |-> out, csv_file |-> csv,
     bbox_size |-> bbox]

BoxSizes == {<<Num(a), Num(b), Num(c)>> : a, b, c \in 0..MaxBox}

MalformedBoxes ==
    { <<Num(1), Num(1)>>, <<Num(1), Num(1), Num(1), Num(1)>>,
      <<Num(1), Junk, Num(1)>>, <<Junk>> }

Dirs == {"data", "nodir"}

\* os.path.isdir: "data" is the one existing directory
isdir(path) == path = "data"

\* os.path.exists for table paths: "in.csv" is the one existing table
exists(path) == path = "in.csv"

AnalyzeArgvs == {Argv("analyze", "data", "out.csv", NotGiven, <<>>)}

BatchCropArgvs ==
    {Argv("crop", "data", o, NotGiven, b) :
        o \in {NotGiven, "out.csv"},
        b \in {<<Num(1), Num(1), Num(1)>>, <<Num(2), Num(0), Num(-1)>>}}

\* command lines whose run ends before any file is looked at
EarlyArgvs ==
    {Argv("crop", d, o, NotGiven, b) :
        d \in Dirs, o \in {NotGiven, "out.csv"}, b \in MalformedBoxes}
      \cup {Argv("crop", "nodir", "out.csv", NotGiven, <<Num(1), Num(1), Num(1)>>),
            Argv("analyze", "nodir", "out.csv", NotGiven, <<>>)}

SingleCropArgvs ==
    {Argv("crop", "data", "out.csv", NotGiven, b) : b \in BoxSizes}

\* a crop window of the size of the cube, for the cube volumes
CubeCropArgvs ==
    {Argv("crop", "data", "out.csv", NotGiven, <<Num(n), Num(n), Num(n)>>) : n \in 1..Dim}

PercentileArgvs ==
    {Argv("percentile", NotGiven, NotGiven, c, <<>>) : c \in {"in.csv", "gone.csv"}}

OtherArgvs ==
    { Argv(NoSub, NotGiven, NotGiven, NotGiven, <<>>),
      Argv("bogus", NotGiven, NotGiven, NotGiven, <<>>),
      Argv("bogus", "data", "out.csv", NotGiven, <<>>),
      Argv("analyze", "data", NotGiven, NotGiven, <<>>),
      Argv("crop", "data", NotGiven, NotGiven, <<>>),
      Argv("percentile", NotGiven, NotGiven, NotGiven, <<>>) }

\* mutant: an unknown sub-command is let through to the dispatch
ParseError_Lenient(a) ==
    \/ a.sub = "analyze" /\ (a.input_dir = NotGiven \/ a.output_csv = NotGiven)
    \/ a.sub = "percentile" /\ a.csv_file = NotGiven
    \/ a.sub = "crop" /\ (a.input_dir = NotGiven \/ a.bbox_size = <<>>)

\* argparse: the namespace parse_args returns, or a usage error (exit 2).
\* Sub-commands are optional, so an absent one parses with mode = None
\* (here NoSub); an unknown one is an invalid choice.
ParseError(a) ==
    \/ a.sub \notin {NoSub, "analyze", "percentile", "crop"}
    \/ a.sub = "analyze" /\ (a.input_dir = NotGiven \/ a.output_csv = NotGiven)
    \/ a.sub = "percentile" /\ a.csv_file = NotGiven
    \/ a.sub = "crop" /\ (a.input_dir = NotGiven \/ a.bbox_size = <<>>)

----------------------------------------------------------------------------
(* Tables read by the percentile sub-command *)

NaN == -1

ColNames == {"filename", "d_x", "d_y", "d_z", "extra"}
required_cols == <<"d_x", "d_y", "d_z">>

\* a row gives the cells of d_x, d_y, d_z (NaN for a missing cell); columns
\* the table does not have are ignored
RowValues == {<<0, 0, 0>>, <<1, 5, 2>>, <<NaN, 3, 3>>, <<4, NaN, NaN>>}

\* the tables pd.read_csv parses: a header row naming at least one column,
\* then the rows
Tables ==
    {[columns |-> cs, rows |-> rs] :
        cs \in (SUBSET ColNames) \ {{}},
        rs \in UNION {[1..k -> RowValues] : k \in 0..MaxRows}}

----------------------------------------------------------------------------
(* State *)

VARIABLES
    argv,        \* the command line
    listing,     \* the entries of the directory "data", in listing order
    table,       \* the content of "in.csv"
    pc,          \* position in the program
    nrrd_files,  \* the list the batch loop iterates over
    idx,         \* position of the loop in nrrd_files
    records,     \* the records list
    out_csv,     \* the content of "out.csv": <<>> if absent, else <<rows>>
    stdout,      \* the events printed so far
    status,      \* exit status once pc = "exit"
    uncaught     \* the exception that ended the run, "" if none

bbox_vars == <<argv, listing, table, pc, nrrd_files, idx, records, out_csv,
               stdout, status, uncaught>>

\* state of a run of hu_clip_normalize.py
VARIABLES
    hu_argv,      \* [input_file, output_dir]
    hu_fs,        \* the volume files, by path
    hu_dirs,      \* the existing directories
    hu_pc,        \* position in the program
    hu_status,    \* exit status once hu_pc = "exit"
    hu_runs,      \* completed calls of hu_clip_normalize with hu_argv
    hu_read,      \* the array the latest call read
    hu_first_in,  \* the input file as it was before the first call
    hu_first_out  \* the output file as it was after the first call

hu_vars == <<hu_argv, hu_fs, hu_dirs, hu_pc, hu_status, hu_runs, hu_read,
             hu_first_in, hu_first_out>>

vars == <<bbox_vars, hu_vars>>

Event(e, i) == [ev |-> e, info |-> i]

Say(e, i) == stdout' = Append(stdout, Event(e, i))

Exit(code) == pc' = "exit" /\ status' = code /\ uncaught' = ""

\* an exception no handler catches: traceback, exit status 1
Raise(exc) == pc' = "exit" /\ status' = 1 /\ uncaught' = exc

NoTable == [columns |-> {}, rows |-> <<>>]

NoFile == [present |-> FALSE, dtype |-> "", data |-> <<>>, header |-> ""]

\* hu_clip_normalize.py is not running
HuIdle ==
    /\ hu_argv = [input_file |-> <<"", "">>, output_dir |-> ""]
    /\ hu_fs = <<>>
    /\ hu_dirs = {}
    /\ hu_pc = "idle"
    /\ hu_status = 0
    /\ hu_runs = 0
    /\ hu_read = <<>>
    /\ hu_first_in = NoFile
    /\ hu_first_out = NoFile

Init ==
    /\ \/ /\ argv \in AnalyzeArgvs \cup BatchCropArgvs
          /\ listing \in BatchListings
          /\ table = NoTable
       \/ /\ argv \in AnalyzeArgvs \cup SingleCropArgvs
          /\ listing \in SingleListings
          /\ table = NoTable
       \/ /\ argv \in CubeCropArgvs
          /\ listing \in {<<NrrdEntry(1, c)>> : c \in CubeVolumes}
          /\ table = NoTable
       \/ /\ argv \in PercentileArgvs
          /\ listing = <<>>
          /\ table \in Tables
       \/ /\ argv \in OtherArgvs
          /\ listing = <<>>
          /\ table = NoTable
       \/ /\ argv \in EarlyArgvs
          /\ listing \in {<<>>, <<NrrdEntry(1, Volume(MaskOf({<<0,0,0>>}, 1, 0)))>>}
          /\ table = NoTable
    /\ pc = "main"
    /\ nrrd_files = <<>>
    /\ idx = 0
    /\ records = <<>>
    /\ out_csv = <<>>
    /\ stdout = <<>>
    /\ status = 0
    /\ uncaught = ""
    /\ HuIdle

----------------------------------------------------------------------------
(* glob and sort *)

\* glob.glob(os.path.join(input_dir, "*.nrrd")): the matching entries, in
\* listing order
RECURSIVE glob(_)
glob(l) ==
    IF l = <<>> THEN <<>>
    ELSE IF Head(l).ext = "nrrd" THEN <<Head(l)>> \o glob(Tail(l))
    ELSE glob(Tail(l))

\* mutant: the list is left in listing order
sort_Unsorted(l) == l

\* list.sort() on paths sharing one directory prefix: by file name
RECURSIVE Insert(_, _)
Insert(e, s) ==
    IF s = <<>> THEN <<e>>
    ELSE IF e.name <= Head(s).name THEN <<e>> \o s
    ELSE <<Head(s)>> \o Insert(e, Tail(s))

RECURSIVE sort(_)
sort(l) == IF l = <<>> THEN <<>> ELSE Insert(Head(l), sort(Tail(l)))

----------------------------------------------------------------------------
(* analyze_bbox_from_nrrd *)

\* np.where(mask > 0)
VoxelSet(mask) == {p \in DOMAIN mask : mask[p] > 0}

Axis(V, k) == {p[k] : p \in V}

\* mutant: d_y is taken along the x axis
BBoxRecord_SwappedAxis(filename, V) ==
    [filename |-> filename,
     d_x |-> SetMax(Axis(V, 1)) - SetMin(Axis(V, 1)),
     d_y |-> SetMax(Axis(V, 1)) - SetMin(Axis(V, 1)),
     d_z |-> SetMax(Axis(V, 3)) - SetMin(Axis(V, 3))]

BBoxRecord(filename, V) ==
    LET x_min == SetMin(Axis(V, 1))
        x_max == SetMax(Axis(V, 1))
        y_min == SetMin(Axis(V, 2))
        y_max == SetMax(Axis(V, 2))
        z_min == SetMin(Axis(V, 3))
        z_max == SetMax(Axis(V, 3))
    IN  [filename |-> filename,
         d_x |-> x_max - x_min,
         d_y |-> y_max - y_min,
         d_z |-> z_max - z_min]

\* lines 18-25
AnalyzeGlob ==
    /\ pc = "analyze"
    /\ LET found == glob(listing)
       IN  IF found = <<>>
           THEN /\ Say("error_no_files", <<>>)
                /\ Exit(1)
                /\ UNCHANGED <<nrrd_files, idx>>
           ELSE /\ nrrd_files' = sort(found)
                /\ idx' = 1
                /\ pc' = "analyze_loop"
                /\ UNCHANGED <<stdout, status, uncaught>>
    /\ UNCHANGED <<hu_vars, argv, listing, table, records, out_csv>>

\* lines 27-58: one iteration of the loop
AnalyzeFile ==
    /\ pc = "analyze_loop"
    /\ idx <= Len(nrrd_files)
    /\ LET f == nrrd_files[idx]
           started == Append(stdout, Event("processing", <<f.name>>))
       IN  IF f.content.kind # "volume"
           THEN \* nrrd.read or the unpacking raised: except Exception
                /\ stdout' = Append(started, Event("error_file", <<f.name>>))
                /\ UNCHANGED records
           ELSE LET V == VoxelSet(f.content.mask)
                IN  IF Cardinality(V) = 0
                    THEN /\ stdout' = Append(started, Event("warning", <<f.name>>))
                         /\ UNCHANGED records
                    ELSE /\ stdout' = started
                         /\ records' = Append(records, BBoxRecord(f.name, V))
    /\ idx' = idx + 1
    /\ UNCHANGED <<hu_vars, argv, listing, table, pc, nrrd_files, out_csv, status, uncaught>>

\* mutant: the empty-records guard is missing
AnalyzeFinish_Unguarded ==
    /\ pc = "analyze_loop"
    /\ idx > Len(nrrd_files)
    /\ Say("processed", <<Len(records)>>)
    /\ out_csv' = <<records>>
    /\ Exit(0)
    /\ UNCHANGED <<hu_vars, argv, listing, table, nrrd_files, idx, records>>

\* lines 60-68
AnalyzeFinish ==
    /\ pc = "analyze_loop"
    /\ idx > Len(nrrd_files)
    /\ IF records = <<>>
       THEN /\ Say("error_no_records", <<>>)
            /\ Exit(1)
            /\ UNCHANGED out_csv
       ELSE /\ Say("processed", <<Len(records)>>)
            /\ out_csv' = <<records>>
            /\ Exit(0)
    /\ UNCHANGED <<hu_vars, argv, listing, table, nrrd_files, idx, records>>

----------------------------------------------------------------------------
(* calculate_percentiles *)

\* df[col].dropna(), as the sequence of the remaining values
RECURSIVE dropna(_, _)
dropna(rows, k) ==
    IF rows = <<>> THEN <<>>
    ELSE IF Head(rows)[k] = NaN THEN dropna(Tail(rows), k)
    ELSE <<Head(rows)[k]>> \o dropna(Tail(rows), k)

RECURSIVE InsertInt(_, _)
InsertInt(e, s) ==
    IF s = <<>> THEN <<e>>
    ELSE IF e <= Head(s) THEN <<e>> \o s
    ELSE <<Head(s)>> \o InsertInt(e, Tail(s))

RECURSIVE SortInts(_)
SortInts(s) == IF s = <<>> THEN <<>> ELSE InsertInt(Head(s), SortInts(Tail(s)))

\* np.percentile(values, q), linear interpolation between order statistics
percentile(values, q) ==
    LET a == SortInts(values)
        n == Len(a)
        h == (n - 1) * q
        lo == h \div 100
        fr == h % 100
    IN  IF fr = 0 THEN Frac(a[lo + 1] * 100, 100)
        ELSE Frac(a[lo + 1] * 100 + fr * (a[lo + 2] - a[lo + 1]), 100)

ColumnStats(values) ==
    <<Frac(SetMin(Range(values)), 1),
      Frac(SumSeq(values), Len(values)),
      percentile(values, 50),
      percentile(values, 95),
      percentile(values, 99),
      Frac(SetMax(Range(values)), 1)>>

\* mutant: every required column is reported
missing_cols_All(columns) == required_cols

missing_cols(columns) == SelectSeq(required_cols, LAMBDA col : col \notin columns)

\* lines 75-106
CalculatePercentiles ==
    /\ pc = "percentile"
    /\ IF ~exists(argv.csv_file)
       THEN /\ Say("error_csv_missing", <<>>)
            /\ Exit(1)
       ELSE IF missing_cols(table.columns) # <<>>
       THEN /\ Say("error_missing_cols", missing_cols(table.columns))
            /\ Exit(1)
       ELSE LET header == Append(stdout, Event("statistics", <<Len(table.rows)>>))
                vals(k) == dropna(table.rows, k)
            IN  IF \E k \in 1..3 : vals(k) = <<>>
                THEN \* a statistic of an empty column: nan, or an IndexError
                     \* from np.percentile, depending on the numpy release
                     \/ /\ stdout' = Append(header, Event("nan", <<>>))
                        /\ Exit(0)
                     \/ /\ stdout' = header
                        /\ Raise("IndexError")
                ELSE /\ stdout' = header \o
                            [k \in 1..3 |-> Event("stats", ColumnStats(vals(k)))]
                     /\ Exit(0)
    /\ UNCHANGED <<hu_vars, argv, listing, table, nrrd_files, idx, records, out_csv>>

----------------------------------------------------------------------------
(* analyze_crop_outside_voxels *)

\* map(int, bbox_size.split(',')) unpacked into three names raises
\* ValueError unless there are three fields and int() accepts each
Malformed(bbox_size) ==
    \/ Len(bbox_size) # 3
    \/ \E k \in 1..Len(bbox_size) : ~bbox_size[k].num

\* the record for a window given by its half sizes, with a closed or a
\* half-open upper bound
CropStatWith(filename, V, half_x, half_y, half_z, closed) ==
    LET n == Cardinality(V)
        Beyond(x, a) == IF closed THEN x * a.den > a.num ELSE IntGeFrac(x, a)
        center_x == Frac(SumSet(V, 1), n)
        center_y == Frac(SumSet(V, 2), n)
        center_z == Frac(SumSet(V, 3), n)
        outside_mask ==
            {p \in V :
                \/ IntLtFrac(p[1], FracSub(center_x, half_x))
                \/ Beyond(p[1], FracAdd(center_x, half_x))
                \/ IntLtFrac(p[2], FracSub(center_y, half_y))
                \/ Beyond(p[2], FracAdd(center_y, half_y))
                \/ IntLtFrac(p[3], FracSub(center_z, half_z))
                \/ Beyond(p[3], FracAdd(center_z, half_z))}
        outside_voxels == Cardinality(outside_mask)
    IN  [filename |-> filename,
         total_voxels |-> n,
         outside_voxels |-> outside_voxels,
         outside_percentage |-> Frac(outside_voxels * 100, n)]

\* mutant: the upper bound of the window is inclusive
CropStatRecord_ClosedUpper(filename, V, bbox_x, bbox_y, bbox_z) ==
    CropStatWith(filename, V, Frac(bbox_x, 2), Frac(bbox_y, 2), Frac(bbox_z, 2),
                 TRUE)

\* mutant: the half size is an integer division
CropStatRecord_IntHalf(filename, V, bbox_x, bbox_y, bbox_z) ==
    CropStatWith(filename, V, Frac(bbox_x \div 2, 1), Frac(bbox_y \div 2, 1),
                 Frac(bbox_z \div 2, 1), FALSE)

CropStatRecord(filename, V, bbox_x, bbox_y, bbox_z) ==
    LET n == Cardinality(V)
        center_x == Frac(SumSet(V, 1), n)
        center_y == Frac(SumSet(V, 2), n)
        center_z == Frac(SumSet(V, 3), n)
        half_x == Frac(bbox_x, 2)
        half_y == Frac(bbox_y, 2)
        half_z == Frac(bbox_z, 2)
        crop_x_min == FracSub(center_x, half_x)
        crop_x_max == FracAdd(center_x, half_x)
        crop_y_min == FracSub(center_y, half_y)
        crop_y_max == FracAdd(center_y, half_y)
        crop_z_min == FracSub(center_z, half_z)
        crop_z_max == FracAdd(center_z, half_z)
        outside_mask ==
            {p \in V :
                \/ IntLtFrac(p[1], crop_x_min) \/ IntGeFrac(p[1], crop_x_max)
                \/ IntLtFrac(p[2], crop_y_min) \/ IntGeFrac(p[2], crop_y_max)
                \/ IntLtFrac(p[3], crop_z_min) \/ IntGeFrac(p[3], crop_z_max)}
        total_voxels == n
        outside_voxels == Cardinality(outside_mask)
        outside_percentage ==
            IF total_voxels > 0 THEN Frac(outside_voxels * 100, total_voxels)
            ELSE Frac(0, 1)
    IN  [filename |-> filename,
         total_voxels |-> total_voxels,
         outside_voxels |-> outside_voxels,
         outside_percentage |-> outside_percentage]

\* lines 117-137
CropParse ==
    /\ pc = "crop"
    /\ IF Malformed(argv.bbox_size)
       THEN /\ Say("error_bbox_size", <<>>)
            /\ Exit(1)
            /\ UNCHANGED <<nrrd_files, idx>>
       ELSE LET found == glob(listing)
                shown == Append(stdout, Event("bbox_size",
                            [k \in 1..3 |-> argv.bbox_size[k].val]))
            IN  IF found = <<>>
                THEN /\ stdout' = Append(shown, Event("error_no_files", <<>>))
                     /\ Exit(1)
                     /\ UNCHANGED <<nrrd_files, idx>>
                ELSE /\ stdout' = shown
                     /\ nrrd_files' = sort(found)
                     /\ idx' = 1
                     /\ pc' = "crop_loop"
                     /\ UNCHANGED <<status, uncaught>>
    /\ UNCHANGED <<hu_vars, argv, listing, table, records, out_csv>>

\* lines 139-193: one iteration of the loop
CropFile ==
    /\ pc = "crop_loop"
    /\ idx <= Len(nrrd_files)
    /\ LET f == nrrd_files[idx]
           started == Append(stdout, Event("processing", <<f.name>>))
       IN  IF f.content.kind # "volume"
           THEN /\ stdout' = Append(started, Event("error_file", <<f.name>>))
                /\ UNCHANGED records
           ELSE LET V == VoxelSet(f.content.mask)
                IN  IF Cardinality(V) = 0
                    THEN /\ stdout' = Append(started, Event("warning", <<f.name>>))
                         /\ UNCHANGED records
                    ELSE LET r == CropStatRecord(f.name, V,
                                      argv.bbox_size[1].val,
                                      argv.bbox_size[2].val,
                                      argv.bbox_size[3].val)
                         IN  /\ stdout' = Append(started, Event("file_stats",
                                     <<r.total_voxels, r.outside_voxels>>))
                             /\ records' = Append(records, r)
    /\ idx' = idx + 1
    /\ UNCHANGED <<hu_vars, argv, listing, table, pc, nrrd_files, out_csv, status, uncaught>>

\* lines 195-214.  pd.DataFrame([]) has no columns, so with no records the
\* first df['total_voxels'] raises KeyError after the summary heading.
CropSummary ==
    /\ pc = "crop_loop"
    /\ idx > Len(nrrd_files)
    /\ LET heading == Append(stdout, Event("summary", <<Len(records)>>))
       IN  IF records = <<>>
           THEN /\ stdout' = heading
                /\ Raise("KeyError")
                /\ UNCHANGED out_csv
           ELSE /\ stdout' = Append(heading, Event("summary_stats",
                       << SumSeq([k \in 1..Len(records) |-> records[k].total_voxels]),
                          SumSeq([k \in 1..Len(records) |-> records[k].outside_voxels]) >>))
                /\ out_csv' = IF argv.output_csv # NotGiven THEN <<records>> ELSE out_csv
                /\ Exit(0)
    /\ UNCHANGED <<hu_vars, argv, listing, table, nrrd_files, idx, records>>

----------------------------------------------------------------------------
(* __main__ of bbox_analyze.py *)

\* line 236: parser.parse_args() rejects the command line
MainUsageError ==
    /\ pc = "main"
    /\ ParseError(argv)
    /\ Say("usage_error", <<>>)
    /\ Exit(2)
    /\ UNCHANGED <<hu_vars, argv, listing, table, nrrd_files, idx, records, out_csv>>

\* lines 238-242
MainAnalyze ==
    /\ pc = "main"
    /\ ~ParseError(argv)
    /\ argv.sub = "analyze"
    /\ IF ~isdir(argv.input_dir)
       THEN Say("error_no_dir", <<>>) /\ Exit(1)
       ELSE pc' = "analyze" /\ UNCHANGED <<stdout, status, uncaught>>
    /\ UNCHANGED <<hu_vars, argv, listing, table, nrrd_files, idx, records, out_csv>>

\* lines 243-244
MainPercentile ==
    /\ pc = "main"
    /\ ~ParseError(argv)
    /\ argv.sub = "percentile"
    /\ pc' = "percentile"
    /\ UNCHANGED <<hu_vars, argv, listing, table, nrrd_files, idx, records, out_csv,
                   stdout, status, uncaught>>

\* lines 245-249
MainCrop ==
    /\ pc = "main"
    /\ ~ParseError(argv)
    /\ argv.sub = "crop"
    /\ IF ~isdir(argv.input_dir)
       THEN Say("error_no_dir", <<>>) /\ Exit(1)
       ELSE pc' = "crop" /\ UNCHANGED <<stdout, status, uncaught>>
    /\ UNCHANGED <<hu_vars, argv, listing, table, nrrd_files, idx, records, out_csv>>

\* lines 250-252
MainHelp ==
    /\ pc = "main"
    /\ ~ParseError(argv)
    /\ argv.sub \notin {"analyze", "percentile", "crop"}
    /\ Say("help", <<>>)
    /\ Exit(1)
    /\ UNCHANGED <<hu_vars, argv, listing, table, nrrd_files, idx, records, out_csv>>

Next ==
    \/ MainUsageError
    \/ MainAnalyze
    \/ MainPercentile
    \/ MainCrop
    \/ MainHelp
    \/ AnalyzeGlob
    \/ AnalyzeFile
    \/ AnalyzeFinish
    \/ CalculatePercentiles
    \/ CropParse
    \/ CropFile
    \/ CropSummary

Spec == Init /\ [][Next]_vars

----------------------------------------------------------------------------
(* hu_clip_normalize.py *)

Int16Values == {-5000, -1001, -1000, -999, 0, 399, 400, 401, 5000}

\* float64 volumes also hold values between the integers
Float64Values ==
    {Frac(v, 1) : v \in Int16Values}
        \cup {Frac(-2001, 2), Frac(1, 2), Frac(801, 2)}

Arrays(values) == UNION {[1..k -> values] : k \in 0..MaxElems}

VolumeFiles ==
    {[present |-> TRUE, dtype |-> "int16", data |-> a, header |-> "h"] :
        a \in Arrays({Frac(v, 1) : v \in Int16Values})}
    \cup
    {[present |-> TRUE, dtype |-> "float64", data |-> a, header |-> "h"] :
        a \in Arrays(Float64Values)}

OldOutput ==
    [present |-> TRUE, dtype |-> "float64", data |-> <<Frac(7, 1)>>, header |-> "old"]

HuPaths == {"in", "out", "new"} \X {"scan.nrrd", "gone.nrrd"}

\* os.path.basename and os.path.join on (directory, name) paths
basename(path) == path[2]
join(dir, name) == <<dir, name>>

\* two's-complement wrap of int16 arithmetic
Wrap16(x) == ((x + 32768) % 65536) - 32768

Minimum(a, b) == IF FracLt(b, a) THEN b ELSE a
Maximum(a, b) == IF FracLt(a, b) THEN b ELSE a

\* mutant: only the lower bound is applied
clip_LowerOnly(v, lo, hi) == Maximum(v, Frac(lo, 1))

\* np.clip(data, -1000, 400), element-wise
clip(v, lo, hi) == Minimum(Maximum(v, Frac(lo, 1)), Frac(hi, 1))

\* (data_clipped + 1000) / 1400: the sum keeps the array's type, the true
\* division gives float64
Normalize(dtype, v) ==
    LET data_clipped == clip(v, -1000, 400)
        shifted == IF dtype = "int16"
                   THEN Frac(Wrap16(data_clipped.num + 1000), 1)
                   ELSE FracAdd(data_clipped, Frac(1000, 1))
    IN  Frac(shifted.num, shifted.den * 1400)

output_path(a) == join(a.output_dir, basename(a.input_file))

\* mutant: the transformed array also replaces the input file
WriteNormalized_InPlace(a, fs) ==
    LET in == fs[a.input_file]
        out == [present |-> TRUE, dtype |-> "float64",
                data |-> [k \in 1..Len(in.data) |-> Normalize(in.dtype, in.data[k])],
                header |-> in.header]
    IN  [p \in DOMAIN fs |->
            IF p = output_path(a) \/ p = a.input_file THEN out ELSE fs[p]]

\* lines 8-19: read, transform, makedirs, write
WriteNormalized(a, fs) ==
    LET in == fs[a.input_file]
        data_normalized == [k \in 1..Len(in.data) |-> Normalize(in.dtype, in.data[k])]
    IN  [fs EXCEPT ![output_path(a)] =
            [present |-> TRUE, dtype |-> "float64",
             data |-> data_normalized, header |-> in.header]]

InitHU ==
    /\ hu_argv \in {[input_file |-> <<"in", n>>, output_dir |-> d] :
                        n \in {"scan.nrrd", "gone.nrrd"}, d \in {"in", "out", "new"}}
    /\ \E f \in VolumeFiles, o \in {NoFile, OldOutput} :
          hu_fs = [p \in HuPaths |->
                      IF p = <<"in", "scan.nrrd">> THEN f
                      ELSE IF p = <<"out", "scan.nrrd">> THEN o
                      ELSE NoFile]
    /\ hu_dirs = {"in", "out"}
    /\ hu_pc = "main"
    /\ hu_status = 0
    /\ hu_runs = 0
    /\ hu_read = <<>>
    /\ hu_first_in = NoFile
    /\ hu_first_out = NoFile
    /\ argv = Argv(NoSub, NotGiven, NotGiven, NotGiven, <<>>)
    /\ listing = <<>>
    /\ table = NoTable
    /\ pc = "idle"
    /\ nrrd_files = <<>>
    /\ idx = 0
    /\ records = <<>>
    /\ out_csv = <<>>
    /\ stdout = <<>>
    /\ status = 0
    /\ uncaught = ""

\* lines 28-30
HuMissingInput ==
    /\ hu_pc = "main"
    /\ ~hu_fs[hu_argv.input_file].present
    /\ hu_pc' = "exit"
    /\ hu_status' = 1
    /\ UNCHANGED <<bbox_vars, hu_argv, hu_fs, hu_dirs, hu_runs, hu_read,
                   hu_first_in, hu_first_out>>

\* line 32: the call of hu_clip_normalize
HuClipNormalize ==
    /\ hu_pc = "main"
    /\ hu_fs[hu_argv.input_file].present
    /\ hu_read' = hu_fs[hu_argv.input_file].data
    /\ hu_fs' = WriteNormalized(hu_argv, hu_fs)
    /\ hu_dirs' = hu_dirs \cup {hu_argv.output_dir}
    /\ hu_runs' = hu_runs + 1
    /\ hu_first_in' = IF hu_runs = 0 THEN hu_fs[hu_argv.input_file] ELSE hu_first_in
    /\ hu_first_out' = IF hu_runs = 0 THEN hu_fs'[output_path(hu_argv)] ELSE hu_first_out
    /\ hu_pc' = "exit"
    /\ hu_status' = 0
    /\ UNCHANGED <<bbox_vars, hu_argv>>

\* the same command line is run a second time
HuRetry ==
    /\ hu_pc = "exit"
    /\ hu_runs < 2
    /\ hu_pc' = "main"
    /\ UNCHANGED <<bbox_vars, hu_argv, hu_fs, hu_dirs, hu_status, hu_runs, hu_read,
                   hu_first_in, hu_first_out>>

NextHU ==
    \/ HuMissingInput
    \/ HuClipNormalize
    \/ HuRetry

SpecHU == InitHU /\ [][NextHU]_vars

----------------------------------------------------------------------------
(* Properties of bbox_analyze.py, checked under Spec *)

Said(e) == \E k \in 1..Len(stdout) : stdout[k].ev = e

Processed(n) ==
    \E k \in 1..Len(stdout) : stdout[k].ev = "processing" /\ stdout[k].info[1] = n

NrrdEntries == {e \in Range(listing) : e.ext = "nrrd"}

\* the file loads as a 3-D array and some value of it is > 0
HasVoxels(e) ==
    /\ e.content.kind = "volume"
    /\ \E p \in DOMAIN e.content.mask : e.content.mask[p] > 0

EntryNamed(n) == CHOOSE e \in NrrdEntries : e.name = n

Positive(e) == {p \in DOMAIN e.content.mask : e.content.mask[p] > 0}

Ran(sub) == argv.sub = sub /\ ~ParseError(argv) /\ isdir(argv.input_dir)

\* C1: in analyze_bbox_from_nrrd over a directory with at least one .nrrd
\* file, a file that fails to load or has no value > 0 never aborts the
\* batch: once the run has ended every .nrrd file has been processed, in
\* file name order, and the record list holds exactly one record per file
\* that loaded with a non-empty VoxelSet, in file name order, and no record
\* for a skipped file.
C1_PartialFailure ==
    (Ran("analyze") /\ pc = "exit" /\ NrrdEntries # {}) =>
        /\ \A e \in NrrdEntries : Processed(e.name)
        /\ \A j, k \in 1..Len(stdout) :
              (j < k /\ stdout[j].ev = "processing" /\ stdout[k].ev = "processing")
                  => stdout[j].info[1] < stdout[k].info[1]
        /\ \A j, k \in 1..Len(records) :
              j < k => records[j].filename < records[k].filename
        /\ {records[k].filename : k \in 1..Len(records)}
               = {e.name : e \in {f \in NrrdEntries : HasVoxels(f)}}

\* a finished batch of three files, listed out of order, whose first file
\* fails to load, whose second has no value > 0 and whose third is good
C1_Witness ==
    /\ Ran("analyze") /\ pc = "exit"
    /\ Len(nrrd_files) = 3
    /\ listing[1].name > listing[2].name
    /\ nrrd_files[1].content.kind = "corrupt"
    /\ nrrd_files[2].content.kind = "volume" /\ ~HasVoxels(nrrd_files[2])
    /\ HasVoxels(nrrd_files[3])
    /\ Len(records) = 1 /\ records[1].filename = nrrd_files[3].name

\* C2: analyze_bbox_from_nrrd ends with exit status 1 and no output CSV
\* whenever the directory has no .nrrd file or no file yields a record; the
\* output CSV is written only with at least one record, and only after the
\* last file has been processed.
C2_FatalWithoutRecords ==
    argv.sub = "analyze" =>
        /\ (Ran("analyze") /\ pc = "exit"
              /\ (NrrdEntries = {} \/ \A e \in NrrdEntries : ~HasVoxels(e)))
               => (status = 1 /\ out_csv = <<>>)
        /\ out_csv # <<>> =>
              /\ Len(out_csv[1]) >= 1
              /\ out_csv[1] = records
              /\ pc = "exit"
              /\ \A e \in NrrdEntries : Processed(e.name)

\* a batch of at least two files that all were skipped ended fatally
C2_Witness ==
    /\ Ran("analyze") /\ pc = "exit" /\ status = 1
    /\ Len(nrrd_files) >= 2 /\ idx > Len(nrrd_files)
    /\ records = <<>> /\ out_csv = <<>>

\* d is the extent of V along axis k: attained by two members, exceeded by none
Extent(d, V, k) ==
    /\ d >= 0
    /\ \E p, q \in V : p[k] - q[k] = d
    /\ \A p, q \in V : p[k] - q[k] <= d

\* C3: every record of analyze_bbox_from_nrrd belongs to a volume with a
\* non-empty VoxelSet, and its d_x, d_y, d_z are each >= 0 and equal to
\* max index - min index of the VoxelSet along that axis, independently per
\* axis; a volume with exactly one voxel > 0 gives d_x = d_y = d_z = 0.
C3_Extents ==
    argv.sub = "analyze" =>
        \A k \in 1..Len(records) :
            LET r == records[k]
                V == Positive(EntryNamed(r.filename))
            IN  /\ V # {}
                /\ Extent(r.d_x, V, 1)
                /\ Extent(r.d_y, V, 2)
                /\ Extent(r.d_z, V, 3)
                /\ Cardinality(V) = 1 => (r.d_x = 0 /\ r.d_y = 0 /\ r.d_z = 0)

\* a record whose three extents differ
C3_Witness ==
    /\ argv.sub = "analyze"
    /\ \E k \in 1..Len(records) :
          records[k].d_x = 2 /\ records[k].d_y = 1 /\ records[k].d_z = 0

\* the sizes the crop run was given
BoxOf(k) == argv.bbox_size[k].val

\* p lies outside the window of size b centred at the centroid S/n on axis k,
\* in integers: p < S/n - b/2 or p >= S/n + b/2
OutsideOn(p, k, V) ==
    LET n == Cardinality(V)
        S == SumSet(V, k)
    IN  \/ 2 * n * p[k] < 2 * S - n * BoxOf(k)
        \/ 2 * n * p[k] >= 2 * S + n * BoxOf(k)

\* C4: every record of analyze_crop_outside_voxels has total_voxels =
\* |VoxelSet| and outside_voxels = the number of VoxelSet members that on at
\* least one axis are < centroid - size/2 or >= centroid + size/2; so
\* 0 <= outside_voxels <= total_voxels and outside_percentage =
\* 100 * outside_voxels / total_voxels lies in [0, 100].
C4_OutsideCount ==
    argv.sub = "crop" =>
        \A k \in 1..Len(records) :
            LET r == records[k]
                V == Positive(EntryNamed(r.filename))
                pct == r.outside_percentage
            IN  /\ r.total_voxels = Cardinality(V)
                /\ r.outside_voxels =
                      Cardinality({p \in V : \E a \in 1..3 : OutsideOn(p, a, V)})
                /\ 0 <= r.outside_voxels /\ r.outside_voxels <= r.total_voxels
                /\ pct.den > 0
                /\ pct.num * r.total_voxels = 100 * r.outside_voxels * pct.den
                /\ 0 <= pct.num /\ pct.num <= 100 * pct.den

\* a record with some, but not all, voxels outside the window
C4_Witness ==
    /\ argv.sub = "crop"
    /\ \E k \in 1..Len(records) :
          0 < records[k].outside_voxels
              /\ records[k].outside_voxels < records[k].total_voxels

\* C5 (as claimed): a crop run fails only when input_dir is missing, no
\* .nrrd file is found or bbox_size is malformed; every other run, also one
\* that produced no record, processes all files, reaches the summary, ends
\* without a fatal exit and writes the records to the output table if a
\* path was supplied.
C5_CropOnlyFailsEarly ==
    (Ran("crop") /\ pc = "exit" /\ ~Malformed(argv.bbox_size) /\ NrrdEntries # {}) =>
        /\ \A e \in NrrdEntries : Processed(e.name)
        /\ Said("summary")
        /\ status = 0 /\ uncaught = ""
        /\ argv.output_csv # NotGiven => out_csv = <<records>>

IsCube(V, n) ==
    /\ V # {}
    /\ Cardinality(V) = n * n * n
    /\ \A a \in 1..3 : SetMax({p[a] : p \in V}) - SetMin({p[a] : p \in V}) = n - 1

\* C9: for a volume whose voxels > 0 form a solid axis-aligned cube of side
\* n >= 1, at any offset, and a crop size of (n, n, n),
\* analyze_crop_outside_voxels reports outside_voxels = 0 and
\* outside_percentage = 0.0, for even and odd n.
C9_CubeInside ==
    argv.sub = "crop" =>
        \A k \in 1..Len(records) :
            LET r == records[k]
                V == Positive(EntryNamed(r.filename))
            IN  (\E n \in 1..Dim :
                    IsCube(V, n) /\ \A a \in 1..3 : BoxOf(a) = n)
                => (r.outside_voxels = 0 /\ r.outside_percentage.num = 0)

\* a record for a cube of even side away from the origin with a window of
\* that size
C9_Witness ==
    /\ argv.sub = "crop"
    /\ Len(records) = 1
    /\ IsCube(Positive(EntryNamed(records[1].filename)), 2)
    /\ <<0, 0, 0>> \notin Positive(EntryNamed(records[1].filename))
    /\ \A a \in 1..3 : BoxOf(a) = 2
    /\ records[1].total_voxels = 8

Known == {"analyze", "percentile", "crop"}

InOperation(sub) ==
    CASE sub = "analyze" -> pc \in {"analyze", "analyze_loop"}
      [] sub = "percentile" -> pc = "percentile"
      [] sub = "crop" -> pc \in {"crop", "crop_loop"}

DispatchRest ==
    /\ \A sub \in Known : InOperation(sub) => (argv.sub = sub /\ ~ParseError(argv))
    /\ (argv.sub \in {"analyze", "crop"} /\ ~ParseError(argv)
          /\ ~isdir(argv.input_dir) /\ pc = "exit")
            => (status = 1 /\ ~Said("processing") /\ records = <<>>)

\* C10 (as claimed): the dispatch prints help and exits with status 1 both
\* when no sub-command is given and when an unrecognized one is given; only
\* analyze, percentile and crop reach their operation; analyze and crop exit
\* 1 without processing any file when input_dir is no existing directory.
C10_HelpOnUnknown ==
    /\ (argv.sub \notin Known /\ pc = "exit") => (Said("help") /\ status = 1)
    /\ DispatchRest

\* C10 (amended): the dispatch prints help and exits with status 1 when no
\* sub-command is given; an unrecognized sub-command is rejected by the
\* argument parser with a usage error and exit status 2, without the help;
\* only analyze, percentile and crop reach their operation; analyze and crop
\* exit 1 without processing any file when input_dir is no existing
\* directory.
C10_HelpOnlyWithoutSub ==
    /\ (argv.sub = NoSub /\ pc = "exit") => (Said("help") /\ status = 1)
    /\ (argv.sub \notin Known \cup {NoSub} /\ pc = "exit")
          => (Said("usage_error") /\ ~Said("help") /\ status = 2)
    /\ DispatchRest

\* a run with an unrecognized sub-command has ended
C10_Witness ==
    argv.sub = "bogus" /\ pc = "exit" /\ status = 2 /\ Said("usage_error")

----------------------------------------------------------------------------
(* Properties of hu_clip_normalize.py, checked under SpecHU *)

\* (clip(v, -1000, 400) + 1000) / 1400 in lowest terms
Expected(v) ==
    IF v.num <= -1000 * v.den THEN Frac(0, 1)
    ELSE IF v.num >= 400 * v.den THEN Frac(1, 1)
    ELSE Reduced(Frac(v.num + 1000 * v.den, 1400 * v.den))

OutputFile == hu_fs[output_path(hu_argv)]

\* C6: for every element v of the volume read, hu_clip_normalize writes
\* (clip(v, -1000, 400) + 1000) / 1400, a value in [0, 1]; v = -1000 and
\* v = -5000 give 0.0, v = 400 and v = 5000 give 1.0.
C6_ClipNormalize ==
    (hu_runs >= 1 /\ hu_pc = "exit") =>
        /\ Len(OutputFile.data) = Len(hu_read)
        /\ \A k \in 1..Len(hu_read) :
              LET v == hu_read[k]
                  o == OutputFile.data[k]
              IN  /\ o.den > 0
                  /\ 0 <= o.num /\ o.num <= o.den
                  /\ Reduced(o) = Expected(v)
                  /\ v \in {Frac(-1000, 1), Frac(-5000, 1)} => o.num = 0
                  /\ v \in {Frac(400, 1), Frac(5000, 1)} => o.num = o.den

\* an int16 volume holding -5000 and 5000 has been normalized
C6_Witness ==
    /\ hu_runs = 1 /\ hu_pc = "exit"
    /\ hu_first_in.dtype = "int16"
    /\ hu_read = <<Frac(-5000, 1), Frac(5000, 1)>>
    /\ OutputFile.data = <<Frac(0, 1400), Frac(1400, 1400)>>

\* the two files hold the same header and the same values
SameFile(f, g) ==
    /\ f.present = g.present
    /\ f.header = g.header
    /\ Len(f.data) = Len(g.data)
    /\ \A k \in 1..Len(f.data) : Reduced(f.data[k]) = Reduced(g.data[k])

Retried == hu_runs = 2 /\ hu_pc = "exit"

\* C7 (as claimed): for every input file path and output directory, after a
\* second run of hu_clip_normalize with the same arguments the output file
\* has the contents it had after the first run, and the input file is
\* changed by neither run.
C7_IdempotentAnywhere ==
    /\ Retried => SameFile(OutputFile, hu_first_out)
    /\ hu_runs >= 1 => SameFile(hu_fs[hu_argv.input_file], hu_first_in)

\* C7 (amended): for every input file path and output directory whose
\* output path (the output directory joined with the input's file name) is
\* not the input file itself, after a second run with the same arguments
\* the output file has the contents it had after the first run, and the
\* input file is changed by neither run.
C7_IdempotentApart ==
    output_path(hu_argv) # hu_argv.input_file =>
        /\ Retried => SameFile(OutputFile, hu_first_out)
        /\ hu_runs >= 1 => SameFile(hu_fs[hu_argv.input_file], hu_first_in)

\* a second run into another directory, over a previous output, has ended
C7_Witness ==
    /\ Retried
    /\ hu_argv.output_dir = "out"
    /\ Len(hu_first_in.data) = 2
    /\ hu_first_out.header = "h"

====
